---- MODULE Spec2Model ----
(***************************************************************************)
(* Evolutionary Prisoner's Dilemma engine on a (signed) network:           *)
(* strategy initialisation (src/src/strategies/initial_state.py), the      *)
(* plain and the trust-weighted game protocols (src/src/game/game_play.py) *)
(* and the four strategy-update rules (src/src/strategies/update_rule.py). *)
(*                                                                         *)
(* A graph is a set E of ordered pairs with one attribute per pair; an     *)
(* undirected nx.Graph is a symmetric E with symmetric attributes (every   *)
(* operation the engine uses, G.neighbors, G[u], G.edges[u, v] and         *)
(* G.has_edge, reads it that way). Nodes and neighbours are enumerated in  *)
(* ascending order (a graph built in that order), and graphs have no       *)
(* self-loops.                                                             *)
(*                                                                         *)
(* A seeded generator is a stream of values; np.random.default_rng(seed)   *)
(* is a cursor at the start of the stream of that seed. The stream of the  *)
(* current seed is materialised as far as it has been read. A stream value *)
(* d stands for the uniform draw d / NumDrawLevels in [0, 1).              *)
(***************************************************************************)
EXTENDS Integers, Sequences, FiniteSets, TLC

\* ------------------------------------------------------------------ bounds
NumNodes == 3
MaxEdges == 2
MaxUndirected == 3
NumDrawLevels == 4
MaxDraws == 4

Nodes == 1..NumNodes
DrawVals == 0..(NumDrawLevels - 1)

\* ------------------------------------------------------------- probabilities
\* A probability is an integer number of 1/ProbDen.
ProbDen == 10 ^ 5
HalfProb == ProbDen \div 2
DefaultFlipProb == 7 * (ProbDen \div 10)
FlipProbs == {0, DefaultFlipProb, ProbDen}
CoinProbs == {0, HalfProb, ProbDen}

\* mutant of Below: the comparison is inclusive
BelowInclusive(d, p) == d * ProbDen <= p * NumDrawLevels

\* rng.random() < p, for the stream value d
Below(d, p) == d * ProbDen < p * NumDrawLevels

\* the value the generator returns at its (k+1)-th read
Read(st, k) == IF k + 1 <= Len(st) THEN st[k + 1] ELSE 0

\* rng.choice(list of n): index (1-based) chosen by the stream value d
ChoiceIndex(d, n) == ((d * n) \div NumDrawLevels) + 1

\* ------------------------------------------------------------------- graph
NoSign == 2
NoStrategy == -1
SignAttrs == {1, -1, NoSign}
OrderedPairs == {p \in Nodes \X Nodes : p[1] # p[2]}
UpperPairs == {p \in Nodes \X Nodes : p[1] < p[2]}

\* dict.get(key, default) on an edge's attribute
GetSign(attr, default) == IF attr = NoSign THEN default ELSE attr

Symmetric(S) == S \cup {<<p[2], p[1]>> : p \in S}

RECURSIVE SortedSeq(_)
\* a set of node ids as the list its enumeration yields
SortedSeq(S) ==
  IF S = {} THEN <<>>
  ELSE LET m == CHOOSE x \in S : \A y \in S : x <= y
       IN <<m>> \o SortedSeq(S \ {m})

\* directed signed graphs (load_epinions, directed=True), at most MaxEdges edges
DirectedGraphs ==
  UNION {{[E |-> X, sign |-> s] : s \in [X -> SignAttrs]} :
           X \in {Y \in SUBSET OrderedPairs : Cardinality(Y) <= MaxEdges}}

\* undirected graphs without edge attributes (nx.read_edgelist), at most
\* MaxUndirected edges
UndirectedGraphs ==
  {[E |-> Symmetric(X), sign |-> [p \in Symmetric(X) |-> NoSign]] :
     X \in {Y \in SUBSET UpperPairs : Cardinality(Y) <= MaxUndirected}}

Graphs == DirectedGraphs \cup UndirectedGraphs

IsUndirected(g) ==
  \A p \in g.E : <<p[2], p[1]>> \in g.E /\ g.sign[<<p[2], p[1]>>] = g.sign[p]

\* list(G.nodes())
NodeList == SortedSeq(Nodes)
\* list(G.neighbors(u)), the same as list(G[u]): successors on a DiGraph
NeighborList(g, u) == SortedSeq({v \in Nodes : <<u, v>> \in g.E})
has_edge(g, u, v) == <<u, v>> \in g.E

\* ------------------------------------------------------------ payoff table
PAYOFF_MATRIX(su, sv) ==
  CASE su = 1 /\ sv = 1 -> <<3, 3>>
    [] su = 1 /\ sv = 0 -> <<0, 5>>
    [] su = 0 /\ sv = 1 -> <<5, 0>>
    [] su = 0 /\ sv = 0 -> <<1, 1>>

\* PAYOFF_MATRIX[(su, sv)] raises KeyError: the pair is not a key of the table
KeyError(su, sv) == ~(su \in {0, 1} /\ sv \in {0, 1})

ZeroPayoffs == [n \in Nodes |-> 0]

RECURSIVE FlattenSeq(_)
FlattenSeq(ss) == IF ss = <<>> THEN <<>> ELSE Head(ss) \o FlattenSeq(Tail(ss))

\* mutant of LoopPairs: the guard u < v is missing
LoopPairsUnguarded(g) ==
  FlattenSeq([i \in 1..Len(NodeList) |->
     LET u == NodeList[i]
         vs == NeighborList(g, u)
     IN [j \in 1..Len(vs) |-> <<u, vs[j]>>]])

\* the pairs (u, v) the two nested loops reach with u < v, in loop order
LoopPairs(g) ==
  FlattenSeq([i \in 1..Len(NodeList) |->
     LET u == NodeList[i]
         vs == SelectSeq(NeighborList(g, u), LAMBDA v : u < v)
     IN [j \in 1..Len(vs) |-> <<u, vs[j]>>]])

\* play_prisoners_dilemma: game_results as the list of its items
play_prisoners_dilemma(g, st) ==
  LET ps == LoopPairs(g)
  IN [i \in 1..Len(ps) |->
        LET u == ps[i][1]
            v == ps[i][2]
            po == PAYOFF_MATRIX(st[u], st[v])
        IN [u |-> u, v |-> v, payoff_u |-> po[1], payoff_v |-> po[2]]]

RECURSIVE AccumulatePayoffs(_, _)
\* evolutionary_game_round, step 3: payoffs[u] += payoff_u; payoffs[v] += payoff_v
AccumulatePayoffs(results, pay) ==
  IF results = <<>> THEN pay
  ELSE LET r == Head(results)
           p1 == [pay EXCEPT ![r.u] = @ + r.payoff_u]
           p2 == [p1 EXCEPT ![r.v] = @ + r.payoff_v]
       IN AccumulatePayoffs(Tail(results), p2)

\* ---------------------------------------------------- trust-weighted protocol
\* the default of .get('sign', 0) in play_with_trust_and_pd
PlaySignDefault == 0
\* the default of .get("sign", +1) in the update rules
RuleSignDefault == 1

\* mutant of FlipTurn: trust makes the node defect, distrust cooperate
FlipTurnSwapped(st, n, sign, fp, stream, k) ==
  IF sign = 1 \/ sign = -1
    THEN [strat |-> IF Below(Read(stream, k), fp)
                      THEN [st EXCEPT ![n] = IF sign = 1 THEN 0 ELSE 1]
                      ELSE st,
          k |-> k + 1]
    ELSE [strat |-> st, k |-> k]

\* one node's turn: if sign == 1 and rng.random() < flip_prob: strategy = 1
\* elif sign == -1 and rng.random() < flip_prob: strategy = 0
FlipTurn(st, n, sign, fp, stream, k) ==
  IF sign = 1 \/ sign = -1
    THEN [strat |-> IF Below(Read(stream, k), fp)
                      THEN [st EXCEPT ![n] = IF sign = 1 THEN 1 ELSE 0]
                      ELSE st,
          k |-> k + 1]
    ELSE [strat |-> st, k |-> k]

\* one iteration of the loop body of play_with_trust_and_pd for the pair (u, v):
\* the generator has been read k times before it; raised: the lookup of the
\* payoff table raises KeyError (after the flips are written)
TrustPair(g, st, pay, u, v, fp, stream, k) ==
  LET sign_uv == GetSign(g.sign[<<u, v>>], PlaySignDefault)
      t1 == FlipTurn(st, u, sign_uv, fp, stream, k)
      t2 == IF has_edge(g, v, u)
              THEN FlipTurn(t1.strat, v, GetSign(g.sign[<<v, u>>], PlaySignDefault),
                            fp, stream, t1.k)
              ELSE t1
      su == t2.strat[u]
      sv == t2.strat[v]
      raised == KeyError(su, sv)
      po == IF raised THEN <<0, 0>> ELSE PAYOFF_MATRIX(su, sv)
      pay1 == [pay EXCEPT ![u] = @ + po[1]]
      pay2 == [pay1 EXCEPT ![v] = @ + po[2]]
  IN [strat |-> t2.strat, payoffs |-> pay2, k |-> t2.k, raised |-> raised,
      result |-> [u |-> u, v |-> v, payoff_u |-> po[1], payoff_v |-> po[2]]]

\* -------------------------------------------------------------- update rules
\* Every rule returns [new |-> the mapping node -> strategy, k |-> the number
\* of reads of its generator]; st and pay are the strategies and payoffs of
\* the graph when the rule is called.

\* mutant of TieSwitch: the tie-break switches on the other outcome
TieSwitchInverted(d) == ~Below(d, HalfProb)

\* rng.random() < 0.5: the tie-break of imitate_best_neighbor switches
TieSwitch(d) == Below(d, HalfProb)

\* mutant of Better: the comparison is turned around
BetterTurned(p, best_pay) == p < best_pay

\* p > best_pay
Better(p, best_pay) == p > best_pay

RECURSIVE ImitateScan(_, _, _, _, _, _, _)
\* the inner loop of imitate_best_neighbor over the neighbours nbrs[i..]
ImitateScan(pay, nbrs, i, best, best_pay, stream, k) ==
  IF i > Len(nbrs) THEN [best |-> best, k |-> k]
  ELSE LET v == nbrs[i]
           p == pay[v]
       IN IF Better(p, best_pay)
            THEN ImitateScan(pay, nbrs, i + 1, v, p, stream, k)
            ELSE IF p = best_pay
              THEN IF TieSwitch(Read(stream, k))
                     THEN ImitateScan(pay, nbrs, i + 1, v, best_pay, stream, k + 1)
                     ELSE ImitateScan(pay, nbrs, i + 1, best, best_pay, stream, k + 1)
              ELSE ImitateScan(pay, nbrs, i + 1, best, best_pay, stream, k)

\* mutant of ImitateNode: the best node is stored instead of its strategy
ImitateNodeId(g, pay, st, u, stream, k) ==
  LET r == ImitateScan(pay, NeighborList(g, u), 1, u, pay[u], stream, k)
  IN [s |-> r.best, k |-> r.k]

\* imitate_best_neighbor, the body of the loop for node u
ImitateNode(g, pay, st, u, stream, k) ==
  LET r == ImitateScan(pay, NeighborList(g, u), 1, u, pay[u], stream, k)
  IN [s |-> st[r.best], k |-> r.k]

\* mutant of Complement: the operands are swapped
ComplementSwapped(x) == x - 1

\* 1 - neigh_s, 1 - current_strat
Complement(x) == 1 - x

RECURSIVE MaxOfSeq(_)
MaxOfSeq(xs) ==
  IF Len(xs) = 1 THEN xs[1]
  ELSE LET m == MaxOfSeq(Tail(xs)) IN IF xs[1] >= m THEN xs[1] ELSE m

\* rng.choice(xs): a list of one element is returned without reading the
\* generator (its bounded-integer draw has range 0)
Choice(xs, stream, k) ==
  IF Len(xs) = 1 THEN [x |-> xs[1], k |-> k]
  ELSE [x |-> xs[ChoiceIndex(Read(stream, k), Len(xs))], k |-> k + 1]

\* mutant of TrustCandidates: the sign of the edge is not read
TrustCandidatesUnsigned(g, u) ==
  LET nbrs == NeighborList(g, u)
  IN <<[v |-> u, s |-> 1]>> \o [i \in 1..Len(nbrs) |-> [v |-> nbrs[i], s |-> 1]]

\* the candidate list of trust_aware_update for node u: (node, sign)
TrustCandidates(g, u) ==
  LET nbrs == NeighborList(g, u)
  IN <<[v |-> u, s |-> 1]>> \o
     [i \in 1..Len(nbrs) |->
        [v |-> nbrs[i], s |-> GetSign(g.sign[<<u, nbrs[i]>>], RuleSignDefault)]]

\* trust_aware_update, the body of the loop for node u
TrustAwareNode(g, pay, st, u, stream, k) ==
  LET candidates == TrustCandidates(g, u)
      eff == [i \in 1..Len(candidates) |-> candidates[i].s * pay[candidates[i].v]]
      max_eff == MaxOfSeq(eff)
      best_idxs == SelectSeq([i \in 1..Len(eff) |-> i], LAMBDA i : eff[i] = max_eff)
      c == Choice(best_idxs, stream, k)
      v_star == candidates[c.x].v
      sign_uv == candidates[c.x].s
  IN [s |-> IF v_star = u THEN st[u]
            ELSE IF sign_uv = 1 THEN st[v_star] ELSE Complement(st[v_star]),
      k |-> c.k]

\* The adoption probability of fermi_update for the payoff difference
\* d = payoff_v - payoff_u (an integer), K = 0.1, in units of 1/ProbDen:
\* x = 10 d; 1/(1+exp(-x)) for x >= 0 and exp(x)/(1+exp(x)) for x < 0, in
\* double precision. exp(-10 d) is below the double epsilon from d = 4 on
\* (the quotient is exactly 1.0) and exp(10 d) underflows to 0.0 from d = -75
\* on; a value strictly between two units is kept strictly between them.
FermiProb(d) ==
  IF d = 0 THEN HalfProb
  ELSE IF d >= 4 THEN ProbDen
  ELSE IF d >= 2 THEN ProbDen - 1
  ELSE IF d = 1 THEN ProbDen - 5
  ELSE IF d = -1 THEN 5
  ELSE IF d > -75 THEN 1
  ELSE 0

\* mutant of FermiNode: the two outcomes of the decision draw are exchanged
FermiNodeSwapped(g, pay, st, u, stream, k) ==
  LET neighbors == NeighborList(g, u)
  IN IF neighbors = <<>> THEN [s |-> st[u], k |-> k]
     ELSE LET c == Choice(neighbors, stream, k)
              v == c.x
              prob == FermiProb(pay[v] - pay[u])
          IN [s |-> IF Below(Read(stream, c.k), prob) THEN st[u] ELSE st[v],
              k |-> c.k + 1]

\* mutant of FermiNode: a node without neighbours is reset to defection
FermiNodeIsolatedReset(g, pay, st, u, stream, k) ==
  LET neighbors == NeighborList(g, u)
  IN IF neighbors = <<>> THEN [s |-> 0, k |-> k]
     ELSE LET c == Choice(neighbors, stream, k)
              v == c.x
              prob == FermiProb(pay[v] - pay[u])
          IN [s |-> IF Below(Read(stream, c.k), prob) THEN st[v] ELSE st[u],
              k |-> c.k + 1]

\* fermi_update, the body of the loop for node u
FermiNode(g, pay, st, u, stream, k) ==
  LET neighbors == NeighborList(g, u)
  IN IF neighbors = <<>> THEN [s |-> st[u], k |-> k]
     ELSE LET c == Choice(neighbors, stream, k)
              v == c.x
              prob == FermiProb(pay[v] - pay[u])
          IN [s |-> IF Below(Read(stream, c.k), prob) THEN st[v] ELSE st[u],
              k |-> c.k + 1]

RECURSIVE WeightedSumUnsigned(_, _, _, _, _)
\* mutant of WeightedSum: the neighbours' payoffs are added without the sign
WeightedSumUnsigned(g, pay, u, nbrs, i) ==
  IF i > Len(nbrs) THEN 0
  ELSE pay[nbrs[i]] + WeightedSumUnsigned(g, pay, u, nbrs, i + 1)

RECURSIVE WeightedSum(_, _, _, _, _)
\* the inner loop of all_neighbors_trust_aware_update over nbrs[i..]
WeightedSum(g, pay, u, nbrs, i) ==
  IF i > Len(nbrs) THEN 0
  ELSE GetSign(g.sign[<<u, nbrs[i]>>], RuleSignDefault) * pay[nbrs[i]]
       + WeightedSum(g, pay, u, nbrs, i + 1)

\* all_neighbors_trust_aware_update, the body of the loop for node u
AllNeighborsNode(g, pay, st, u, stream, k) ==
  LET weighted_payoff_sum == pay[u] + WeightedSum(g, pay, u, NeighborList(g, u), 1)
  IN IF weighted_payoff_sum > 0 THEN [s |-> 1, k |-> k]
     ELSE IF weighted_payoff_sum < 0 THEN [s |-> 0, k |-> k]
     ELSE [s |-> IF Below(Read(stream, k), HalfProb) THEN st[u] ELSE Complement(st[u]),
           k |-> k + 1]

Rules == {"imitate_best_neighbor", "trust_aware_update", "fermi_update",
          "all_neighbors_trust_aware_update"}

RuleNode(rule, g, pay, st, u, stream, k) ==
  CASE rule = "imitate_best_neighbor" -> ImitateNode(g, pay, st, u, stream, k)
    [] rule = "trust_aware_update" -> TrustAwareNode(g, pay, st, u, stream, k)
    [] rule = "fermi_update" -> FermiNode(g, pay, st, u, stream, k)
    [] rule = "all_neighbors_trust_aware_update" ->
         AllNeighborsNode(g, pay, st, u, stream, k)

RECURSIVE RuleLoopInPlace(_, _, _, _, _, _, _, _)
\* mutant of RuleLoop: each new strategy is visible to the nodes after it
RuleLoopInPlace(rule, g, pay, st, i, new, stream, k) ==
  IF i > Len(NodeList) THEN [new |-> new, k |-> k]
  ELSE LET u == NodeList[i]
           r == RuleNode(rule, g, pay, st, u, stream, k)
       IN RuleLoopInPlace(rule, g, pay, [st EXCEPT ![u] = r.s], i + 1,
                          new @@ (u :> r.s), stream, r.k)

RECURSIVE RuleLoop(_, _, _, _, _, _, _, _)
\* for u in G.nodes(): new_strat[u] = ... ; return new_strat
RuleLoop(rule, g, pay, st, i, new, stream, k) ==
  IF i > Len(NodeList) THEN [new |-> new, k |-> k]
  ELSE LET u == NodeList[i]
           r == RuleNode(rule, g, pay, st, u, stream, k)
       IN RuleLoop(rule, g, pay, st, i + 1, new @@ (u :> r.s), stream, r.k)

EmptyMap == [n \in {} |-> 0]

\* update_rule(G, payoffs, rng) for each of the four rules; the generator has
\* been read k times before the call
ApplyRule(rule, g, pay, st, stream, k) ==
  RuleLoop(rule, g, pay, st, 1, EmptyMap, stream, k)

\* np.random.default_rng(seed): the number of values of the seed's stream the
\* new generator has passed, when generators of that seed have read `consumed`
default_rng(consumed) == 0

\* mutant of SeedStream: the generator is not seeded
SeedStreamUnseeded(sameSeed, known) == <<>>

\* the stream of the seed a round is called with, as far as it is known: the
\* seed of the round before it (whose stream was read as far as `known`) or a
\* new seed
SeedStream(sameSeed, known) == IF sameSeed THEN known ELSE <<>>

\* ------------------------------------------------- coverage check and write
\* mutant of Missing: the check finds nothing missing
MissingIgnored(map) == {}

\* set(G.nodes()) - set(strategy_map.keys())
Missing(map) == Nodes \ DOMAIN map

\* nx.set_node_attributes(G, map, "strategy")
set_node_attributes(st, map) ==
  [n \in Nodes |-> IF n \in DOMAIN map THEN map[n] ELSE st[n]]

\* mutant of coin_flip_initializer: the comparison with p is inclusive
CoinFlipInclusive(p, samples) ==
  [n \in Nodes |-> IF samples[n] * ProbDen <= p * NumDrawLevels THEN 1 ELSE 0]

\* coin_flip_initializer: samples = rng.random(len(nodes));
\* {node: int(samples[i] < p)}
coin_flip_initializer(p, samples) ==
  LET pairs == {<<NodeList[i], IF Below(samples[i], p) THEN 1 ELSE 0>> :
                  i \in 1..Len(NodeList)}
  IN [n \in {q[1] : q \in pairs} |-> (CHOOSE q \in pairs : q[1] = n)[2]]

\* a mapping some other initializer or update rule may return: any nodes as
\* keys, any integers as values (2 stands for every value other than 0 and 1)
CustomMaps == UNION {[S -> {0, 1, 2}] : S \in SUBSET Nodes}

\* ------------------------------------------------------------------- state
NoRun == [rule |-> "none", strat |-> ZeroPayoffs, payoffs |-> ZeroPayoffs]

VARIABLES
  G,          \* the graph: edge set and edge attribute 'sign'
  strat,      \* node attribute 'strategy'
  pc,         \* "init", "ready", "trust", "played", "updated", "again",
              \* "error" (ValueError raised), "keyerror" (KeyError raised)
  payoffs,    \* the payoff totals of the round
  games,      \* the games played in the round, in order
  game,       \* the protocol of the round: "plain" or "trust"
  flip_prob,  \* the flip_prob argument of the round
  pairIdx,    \* play_with_trust_and_pd: how many loop pairs are done
  stream,     \* the values of the stream of the current seed, as far as read
  playDraws,  \* reads by the generator of the game phase
  updDraws,   \* reads by the generator of the initializer or update rule
  rule,       \* the initializer or update rule of the last call
  returned,   \* the mapping it returned
  prev,       \* the strategies when it was called
  strat0,     \* the strategies when the round was called
  err,        \* the nodes named by the ValueError
  coin_p,     \* the p argument of assign_strategies
  first       \* the outcome of the round, when it is run a second time
vars == <<G, strat, pc, payoffs, games, game, flip_prob, pairIdx, stream,
          playDraws, updDraws, rule, returned, prev, strat0, err, coin_p, first>>

InitOn(graphs) ==
  /\ G \in graphs
  /\ strat = [n \in Nodes |-> NoStrategy]
  /\ pc = "init"
  /\ payoffs = ZeroPayoffs
  /\ games = <<>>
  /\ game = "none"
  /\ flip_prob = 0
  /\ pairIdx = 0
  /\ stream = <<>>
  /\ playDraws = 0
  /\ updDraws = 0
  /\ rule = "none"
  /\ returned = EmptyMap
  /\ prev = [n \in Nodes |-> NoStrategy]
  /\ strat0 = [n \in Nodes |-> NoStrategy]
  /\ err = {}
  /\ coin_p = 0
  /\ first = NoRun

Init == InitOn(Graphs)

\* the tail of assign_strategies and of update_strategies: raise ValueError
\* naming the missing nodes, or write the mapping
CheckAndWrite(map, okpc) ==
  /\ returned' = map
  /\ prev' = strat
  /\ IF Missing(map) # {}
       THEN /\ pc' = "error"
            /\ err' = Missing(map)
            /\ strat' = strat
       ELSE /\ pc' = okpc
            /\ err' = {}
            /\ strat' = set_node_attributes(strat, map)

\* assign_strategies(G, coin_flip_initializer, p, seed)
AssignStrategies ==
  /\ pc = "init"
  /\ \E p \in CoinProbs, samples \in [1..NumNodes -> DrawVals] :
       /\ CheckAndWrite(coin_flip_initializer(p, samples), "ready")
       /\ stream' = samples
       /\ coin_p' = p
  /\ rule' = "coin_flip_initializer"
  /\ updDraws' = NumNodes
  /\ UNCHANGED <<G, payoffs, games, game, flip_prob, pairIdx, playDraws,
                 strat0, first>>

\* assign_strategies(G, initializer, p, seed) with another initializer
AssignCustom ==
  /\ pc = "init"
  /\ \E map \in CustomMaps : CheckAndWrite(map, "ready")
  /\ rule' = "custom"
  /\ UNCHANGED <<G, payoffs, games, game, flip_prob, pairIdx, stream, playDraws,
                 updDraws, strat0, coin_p, first>>

\* a round is called: on the graph as it is, with a new seed; or once more on
\* the graph as it was before the round, with the same arguments and seed
CallRound(g) ==
  /\ \/ pc \in {"ready", "updated"} /\ first = NoRun
     \/ pc = "again" /\ game = g
  /\ stream' = SeedStream(pc = "again", stream)
  /\ strat0' = strat
  /\ prev' = strat
  /\ rule' = "none"
  /\ returned' = EmptyMap
  /\ playDraws' = 0
  /\ updDraws' = 0
  /\ coin_p' = 0
  /\ err' = {}

\* evolutionary_game_round, steps 2 and 3: play every pair, total the payoffs
PlayPlain ==
  /\ CallRound("plain")
  /\ IF \E i \in 1..Len(LoopPairs(G)) :
          KeyError(strat[LoopPairs(G)[i][1]], strat[LoopPairs(G)[i][2]])
       THEN /\ games' = <<>>
            /\ payoffs' = ZeroPayoffs
            /\ pc' = "keyerror"
       ELSE /\ games' = play_prisoners_dilemma(G, strat)
            /\ payoffs' = AccumulatePayoffs(play_prisoners_dilemma(G, strat), ZeroPayoffs)
            /\ pc' = "played"
  /\ game' = "plain"
  /\ flip_prob' = 0
  /\ pairIdx' = 0
  /\ UNCHANGED <<G, strat, first>>

\* game_round_trust -> play_with_trust_and_pd: rng and payoffs are set up
TrustStart ==
  /\ CallRound("trust")
  /\ \E fp \in FlipProbs :
       /\ pc = "again" => fp = flip_prob
       /\ flip_prob' = fp
  /\ payoffs' = ZeroPayoffs
  /\ games' = <<>>
  /\ game' = "trust"
  /\ pairIdx' = 0
  /\ pc' = IF LoopPairs(G) = <<>> THEN "played" ELSE "trust"
  /\ UNCHANGED <<G, strat, first>>

\* the values of the stream an operation reads beyond those already known
Extensions(need) ==
  [1..(IF need > Len(stream) THEN need - Len(stream) ELSE 0) -> DrawVals]

\* play_with_trust_and_pd: the loop body for the next pair
TrustStep ==
  /\ pc = "trust"
  /\ LET pair == LoopPairs(G)[pairIdx + 1]
         need == TrustPair(G, strat, payoffs, pair[1], pair[2], flip_prob,
                           stream, playDraws).k
     IN /\ need <= MaxDraws
        /\ \E ext \in Extensions(need) :
             LET r == TrustPair(G, strat, payoffs, pair[1], pair[2], flip_prob,
                                stream \o ext, playDraws)
             IN /\ strat' = r.strat
                /\ payoffs' = r.payoffs
                /\ playDraws' = r.k
                /\ games' = Append(games, r.result)
                /\ stream' = stream \o ext
                /\ pc' = IF r.raised THEN "keyerror"
                          ELSE IF pairIdx + 1 = Len(LoopPairs(G)) THEN "played"
                          ELSE "trust"
  /\ pairIdx' = pairIdx + 1
  /\ UNCHANGED <<G, game, flip_prob, updDraws, rule, returned, prev, strat0,
                 err, coin_p, first>>

\* update_strategies(G, payoffs, update_rule, seed): a new generator of the
\* round's seed, the rule, the coverage check, the write
UpdateStrategies ==
  /\ pc = "played"
  /\ \E r \in Rules :
       LET k0 == default_rng(playDraws)
           need == ApplyRule(r, G, payoffs, strat, stream, k0).k
       IN /\ first # NoRun => r = first.rule
          /\ need <= MaxDraws
          /\ \E ext \in Extensions(need) :
               LET res == ApplyRule(r, G, payoffs, strat, stream \o ext, k0)
               IN /\ CheckAndWrite(res.new, "updated")
                  /\ updDraws' = res.k - k0
                  /\ stream' = stream \o ext
          /\ rule' = r
  /\ UNCHANGED <<G, payoffs, games, game, flip_prob, pairIdx, playDraws,
                 strat0, coin_p, first>>

\* update_strategies(G, payoffs, update_rule, seed) with another update rule
UpdateCustom ==
  /\ pc = "played"
  /\ first = NoRun
  /\ \E map \in CustomMaps : CheckAndWrite(map, "updated")
  /\ rule' = "custom"
  /\ UNCHANGED <<G, payoffs, games, game, flip_prob, pairIdx, stream, playDraws,
                 updDraws, strat0, coin_p, first>>

\* the caller keeps the outcome of the round and calls the same round again
\* on a copy of the graph made before it, with the same arguments and seed
RunAgain ==
  /\ pc = "updated"
  /\ first = NoRun
  /\ first' = [rule |-> rule, strat |-> strat, payoffs |-> payoffs]
  /\ strat' = strat0
  /\ pc' = "again"
  /\ UNCHANGED <<G, payoffs, games, game, flip_prob, pairIdx, stream, playDraws,
                 updDraws, rule, returned, prev, strat0, err, coin_p>>

Next == AssignStrategies \/ PlayPlain \/ TrustStart \/ TrustStep \/ UpdateStrategies

Spec == Init /\ [][Next]_vars

\* the engine driven with initializers and update rules of the caller's own
NextCustom == Next \/ AssignCustom \/ UpdateCustom

SpecCustom == InitOn(UndirectedGraphs) /\ [][NextCustom]_vars

\* every round run twice from the same graph, arguments and seed
NextTwice == Next \/ RunAgain

SpecTwice == Init /\ [][NextTwice]_vars

\* ================================================================== claims

\* n's share of a game between strategies sn (its own) and sm (the other's)
Share(sn, sm) ==
  CASE sn = 1 /\ sm = 1 -> 3
    [] sn = 1 /\ sm = 0 -> 0
    [] sn = 0 /\ sm = 1 -> 5
    [] sn = 0 /\ sm = 0 -> 1

RECURSIVE SumOver(_, _)
SumOver(S, f) ==
  IF S = {} THEN 0
  ELSE LET x == CHOOSE y \in S : TRUE IN f[x] + SumOver(S \ {x}, f)

OutNeighbors(u) == {v \in Nodes : <<u, v>> \in G.E}
GamesOf(u, v) == {i \in 1..Len(games) : {games[i].u, games[i].v} = {u, v}}
\* the sign of an edge, +1 when it has none
SignOrTrust(u, v) == IF G.sign[<<u, v>>] = NoSign THEN 1 ELSE G.sign[<<u, v>>]

\* C1: when the mapping an initializer or an update rule returns omits a node,
\* the call fails with an error that names exactly the omitted nodes and no
\* strategy is written; otherwise the call does not fail.
C1_CoverageEnforced ==
  pc \in {"ready", "updated", "error"} =>
    IF Nodes \ DOMAIN returned # {}
      THEN pc = "error" /\ err = Nodes \ DOMAIN returned /\ strat = prev
      ELSE pc # "error"

C1_Witness ==
  /\ pc = "error"
  /\ rule = "custom"
  /\ game = "plain"
  /\ Cardinality(err) = 1
  /\ \E n \in DOMAIN returned : returned[n] # prev[n]

\* C2: after coin-flip initialisation and through every round of either
\* protocol with any of the four rules, every node's strategy is 0 or 1.
C2_Binary ==
  pc \in {"ready", "trust", "played", "updated"} =>
    \A n \in Nodes : strat[n] \in {0, 1}

C2_Witness ==
  /\ pc = "updated"
  /\ game = "trust"
  /\ rule = "trust_aware_update"
  /\ strat0 # prev
  /\ \E u \in Nodes : strat[u] # prev[u] /\ \E v \in OutNeighbors(u) : G.sign[<<u, v>>] = -1

C4_PlainPayoff ==
  (pc = "played" /\ game = "plain" /\ IsUndirected(G)) =>
    /\ \A p \in G.E : Cardinality(GamesOf(p[1], p[2])) = 1
    /\ \A i \in 1..Len(games) : <<games[i].u, games[i].v>> \in G.E
    /\ \A n \in Nodes :
         payoffs[n] = SumOver(OutNeighbors(n), [m \in Nodes |-> Share(strat[n], strat[m])])

C4_Witness ==
  /\ pc = "played"
  /\ game = "plain"
  /\ IsUndirected(G)
  /\ \E n \in Nodes : Cardinality(OutNeighbors(n)) = 2 /\ payoffs[n] = 10
  /\ \E n \in Nodes : OutNeighbors(n) # {} /\ payoffs[n] = 0

\* n's recorded share of the i-th game of the round
RecordedShare(n, i) ==
  IF games[i].u = n THEN games[i].payoff_u
  ELSE IF games[i].v = n THEN games[i].payoff_v ELSE 0

\* C5: in the trust-weighted protocol every pair of distinct nodes joined by
\* at least one directed edge plays exactly one game in the round, and the
\* payoff totals of its two nodes receive their shares of it.
C5_PairCoverage ==
  (pc = "played" /\ game = "trust") =>
    /\ \A u, v \in Nodes :
         (u # v /\ (<<u, v>> \in G.E \/ <<v, u>> \in G.E)) =>
           Cardinality(GamesOf(u, v)) = 1
    /\ \A n \in Nodes :
         payoffs[n] = SumOver(1..Len(games), [i \in 1..Len(games) |-> RecordedShare(n, i)])

\* the strategy of a node after its turn of a pair: reads says whether its
\* turn reads the generator, d is the value read
AfterTurn(sign, reads, d, old) ==
  IF reads /\ sign = 1 /\ Below(d, flip_prob) THEN 1
  ELSE IF reads /\ sign = -1 /\ Below(d, flip_prob) THEN 0
  ELSE old

\* C6: when the trust-weighted protocol processes the pair (u, v), u becomes 1
\* (sign of u->v is +1) or 0 (sign -1) when its draw is below flip_prob, v
\* likewise by the sign of v->u when that edge exists; the pair's payoffs are
\* those of the strategies after the flips; the flipped strategies stay in the
\* graph for the pairs processed later and are the ones the update rule of the
\* round is called with.
C6_FlipsPersist ==
  [][/\ pc = "trust" =>
          LET pair == LoopPairs(G)[pairIdx + 1]
              u == pair[1]
              v == pair[2]
              uReads == G.sign[<<u, v>>] \in {1, -1}
              newU == AfterTurn(G.sign[<<u, v>>], uReads,
                                IF uReads THEN stream'[playDraws + 1] ELSE 0, strat[u])
              kv == IF uReads THEN playDraws + 1 ELSE playDraws
              rev == <<v, u>> \in G.E
              vReads == rev /\ G.sign[<<v, u>>] \in {1, -1}
              newV == AfterTurn(IF rev THEN G.sign[<<v, u>>] ELSE 0, vReads,
                                IF vReads THEN stream'[kv + 1] ELSE 0, strat[v])
          IN /\ strat' = [strat EXCEPT ![u] = newU, ![v] = newV]
             /\ payoffs' = [payoffs EXCEPT ![u] = @ + Share(newU, newV),
                                           ![v] = @ + Share(newV, newU)]
             /\ games'[Len(games')] = [u |-> u, v |-> v, payoff_u |-> Share(newU, newV),
                                       payoff_v |-> Share(newV, newU)]
     /\ (pc = "played" /\ game = "trust" /\ pc' = "updated") =>
          /\ prev' = strat
          /\ returned' = ApplyRule(rule', G, payoffs, strat, stream', 0).new
          /\ strat' = returned'
    ]_vars

C6_Witness ==
  /\ pc = "updated"
  /\ game = "trust"
  /\ Len(games) = 2
  /\ games[1].u = games[2].u
  /\ strat0[games[1].u] = 0
  /\ prev[games[1].u] = 1
  /\ G.sign[<<games[2].u, games[2].v>>] = NoSign
  /\ games[2].payoff_u = 0
  /\ rule = "imitate_best_neighbor"
  /\ strat = [n \in Nodes |-> 0]

\* the graph with +1 written on every edge that has no sign
WithDefaultSigns(g) ==
  [E |-> g.E, sign |-> [p \in g.E |-> IF g.sign[p] = NoSign THEN 1 ELSE g.sign[p]]]

\* C7: every trust-weighted operation treats an edge without a sign attribute
\* exactly as an edge of sign +1: the trust-weighted protocol's step for a
\* pair, and the two trust-aware update rules, do on the graph what they do on
\* the graph with +1 written on the unsigned edges (same strategies, payoffs
\* and reads of the generator).
C7_SignDefault ==
  [][/\ pc = "trust" =>
          LET pair == LoopPairs(G)[pairIdx + 1]
          IN \E ext \in [1..2 -> DrawVals] :
               LET r == TrustPair(WithDefaultSigns(G), strat, payoffs, pair[1], pair[2],
                                  flip_prob, stream' \o ext, playDraws)
               IN /\ r.strat = strat'
                  /\ r.payoffs = payoffs'
                  /\ r.k = playDraws'
     /\ (pc = "played" /\ pc' = "updated"
           /\ rule' \in {"trust_aware_update", "all_neighbors_trust_aware_update"}) =>
          strat' = ApplyRule(rule', WithDefaultSigns(G), payoffs, strat, stream', 0).new
    ]_vars

MaxPayoff(S) == CHOOSE m \in {payoffs[x] : x \in S} : \A y \in S : payoffs[y] <= m

\* the path u - v - w of the specification's example, on the nodes 1, 2, 3
PathGraph ==
  [E |-> {<<1, 2>>, <<2, 1>>, <<2, 3>>, <<3, 2>>},
   sign |-> [p \in {<<1, 2>>, <<2, 1>>, <<2, 3>>, <<3, 2>>} |-> NoSign]]
PathPayoffs == [n \in Nodes |-> IF n = 1 THEN 1 ELSE IF n = 2 THEN 5 ELSE IF n = 3 THEN 2 ELSE 0]
PathStrategies == [n \in Nodes |-> IF n = 2 THEN 1 ELSE 0]

\* C8: imitate_best_neighbor gives every node u the strategy (as it was when
\* the rule was called) of a node among u and its neighbours whose payoff is
\* the maximum over them; a node whose payoff is strictly above every
\* neighbour's keeps its own; the path with payoffs 1, 5, 2 and strategies
\* 0, 1, 0 yields 1, 1, 1.
C8_ImitateBest ==
  /\ (pc = "updated" /\ rule = "imitate_best_neighbor") =>
       \A u \in Nodes :
         /\ \E c \in {u} \cup OutNeighbors(u) :
              /\ payoffs[c] = MaxPayoff({u} \cup OutNeighbors(u))
              /\ strat[u] = prev[c]
         /\ (\A v \in OutNeighbors(u) : payoffs[u] > payoffs[v]) => strat[u] = prev[u]
  /\ \A n \in 1..3 :
       ApplyRule("imitate_best_neighbor", PathGraph, PathPayoffs, PathStrategies, <<>>, 0).new[n] = 1

C8_Witness ==
  /\ pc = "updated"
  /\ rule = "imitate_best_neighbor"
  /\ \E u \in Nodes : \E v \in OutNeighbors(u) :
       /\ payoffs[v] > payoffs[u]
       /\ prev[v] # prev[u]
       /\ strat[u] = prev[v]
  /\ \E u \in Nodes :
       /\ OutNeighbors(u) # {}
       /\ \A v \in OutNeighbors(u) : payoffs[u] > payoffs[v]

\* C9: when all nodes have the same payoff and every tie-break draw of
\* imitate_best_neighbor is at least 0.5, the mapping it returns is the
\* current assignment and update_strategies changes no strategy.
C9_ZeroSpreadIdempotent ==
  (/\ pc = "updated"
   /\ rule = "imitate_best_neighbor"
   /\ \A a, b \in Nodes : payoffs[a] = payoffs[b]
   /\ \A i \in 1..updDraws : 2 * stream[i] >= NumDrawLevels) =>
    /\ returned = prev
    /\ strat = prev

C9_Witness ==
  /\ pc = "updated"
  /\ rule = "imitate_best_neighbor"
  /\ \A a, b \in Nodes : payoffs[a] = payoffs[b]
  /\ updDraws >= 2
  /\ \A i \in 1..updDraws : 2 * stream[i] >= NumDrawLevels
  /\ \E u \in Nodes : \E v \in OutNeighbors(u) : prev[u] # prev[v]

\* a distrusting node 1 whose only neighbour 2 cooperates and has the unique
\* maximum effective payoff
DistrustGraph == [E |-> {<<1, 2>>}, sign |-> [p \in {<<1, 2>>} |-> -1]]
DistrustPayoffs == [n \in Nodes |-> IF n = 2 THEN -1 ELSE 0]
DistrustStrategies == [n \in Nodes |-> 1]

\* C10: trust_aware_update gives every node u the outcome of a winner among u
\* itself (sign +1) and its neighbours whose effective payoff sign x payoff is
\* the maximum over these candidates: its own strategy when the winner is u,
\* the winner's strategy when it is a neighbour of sign +1, the complement of
\* the winner's strategy when it is a neighbour of sign -1; a single
\* distrusted neighbour with the unique maximum and strategy 1 gives 0.
C10_TrustAware ==
  /\ (pc = "updated" /\ rule = "trust_aware_update") =>
       \A u \in Nodes :
         LET eff == [v \in OutNeighbors(u) |-> SignOrTrust(u, v) * payoffs[v]]
             top(x) == x >= payoffs[u] /\ \A v \in OutNeighbors(u) : x >= eff[v]
         IN \/ top(payoffs[u]) /\ strat[u] = prev[u]
            \/ \E v \in OutNeighbors(u) :
                 /\ top(eff[v])
                 /\ strat[u] = IF SignOrTrust(u, v) = 1 THEN prev[v] ELSE 1 - prev[v]
  /\ TrustAwareNode(DistrustGraph, DistrustPayoffs, DistrustStrategies, 1, <<>>, 0).s = 0

C10_Witness ==
  /\ pc = "updated"
  /\ rule = "trust_aware_update"
  /\ \E u \in Nodes : \E v \in Nodes :
       /\ OutNeighbors(u) = {v}
       /\ G.sign[<<u, v>>] = -1
       /\ prev[u] = prev[v]
       /\ strat[u] = 1 - prev[v]

\* the reads of the generator fermi_update makes for node w: the choice among
\* two or more neighbours, and the decision
FermiReads(w) ==
  IF OutNeighbors(w) = {} THEN 0
  ELSE IF Cardinality(OutNeighbors(w)) = 1 THEN 1 ELSE 2

\* the reads made for the nodes enumerated before u
FermiStart(u) ==
  SumOver({w \in Nodes : w < u}, [w \in Nodes |-> FermiReads(w)])

\* the neighbour sampled for u: the only one, or the one the choice draw
\* (a uniform index into the neighbour list) selects
FermiSampled(u) ==
  LET nb == OutNeighbors(u)
      idx == (stream[FermiStart(u) + 1] * Cardinality(nb)) \div NumDrawLevels
  IN IF Cardinality(nb) = 1 THEN CHOOSE v \in nb : TRUE
     ELSE CHOOSE v \in nb : Cardinality({w \in nb : w < v}) = idx

\* the decision draw of u
FermiDecision(u) == stream[FermiStart(u) + FermiReads(u)]

\* C11: fermi_update samples one neighbour v for every node u that has one,
\* and u's new strategy is v's strategy (as it was when the rule was called)
\* when the decision draw is below the adoption probability and u's own
\* otherwise; for equal payoffs the probability is exactly 0.5: u adopts
\* exactly when the draw is below 0.5.
C11_FermiAdoption ==
  (pc = "updated" /\ rule = "fermi_update") =>
    /\ updDraws = SumOver(Nodes, [w \in Nodes |-> FermiReads(w)])
    /\ \A u \in Nodes :
         OutNeighbors(u) # {} =>
           LET v == FermiSampled(u)
               d == FermiDecision(u)
               adopts == IF payoffs[u] = payoffs[v]
                           THEN 2 * d < NumDrawLevels
                           ELSE Below(d, FermiProb(payoffs[v] - payoffs[u]))
           IN /\ v \in OutNeighbors(u)
              /\ strat[u] = IF adopts THEN prev[v] ELSE prev[u]

C11_Witness ==
  /\ pc = "updated"
  /\ rule = "fermi_update"
  /\ \E u \in Nodes :
       /\ Cardinality(OutNeighbors(u)) = 2
       /\ payoffs[u] = payoffs[FermiSampled(u)]
       /\ 2 * FermiDecision(u) < NumDrawLevels
       /\ strat[u] # prev[u]

\* the graph without edges
EmptyGraph == [E |-> {}, sign |-> [p \in {} |-> NoSign]]

\* the three rules on the graph without edges, with the payoffs, the
\* strategies and the generator values of the current state
IsolatedKeeps ==
  \A r \in {"imitate_best_neighbor", "trust_aware_update", "fermi_update"} :
    \A u \in Nodes :
      RuleNode(r, EmptyGraph, payoffs, strat, u, stream, 0) = [s |-> strat[u], k |-> 0]

\* C12: a node without neighbours keeps its strategy under
\* imitate_best_neighbor, trust_aware_update and fermi_update, whatever the
\* payoffs and the draws, and the rules do not fail on it.
C12_EmptyNeighborhood ==
  /\ (pc = "updated"
        /\ rule \in {"imitate_best_neighbor", "trust_aware_update", "fermi_update"}) =>
       /\ DOMAIN returned = Nodes
       /\ \A u \in Nodes : OutNeighbors(u) = {} => returned[u] = prev[u] /\ strat[u] = prev[u]
  /\ pc # "error"
  /\ IsolatedKeeps

C12_Witness ==
  /\ pc = "updated"
  /\ rule = "fermi_update"
  /\ updDraws > 0
  /\ strat # prev
  /\ \E u \in Nodes :
       /\ OutNeighbors(u) = {}
       /\ payoffs[u] > 0
       /\ \E v \in Nodes : payoffs[v] > payoffs[u] /\ prev[v] # prev[u]

\* S = payoff(u) + sum over u's neighbours v of sign(u, v) x payoff(v)
SignedSum(u) ==
  payoffs[u] + SumOver(OutNeighbors(u), [v \in Nodes |->
                         IF v \in OutNeighbors(u) THEN SignOrTrust(u, v) * payoffs[v] ELSE 0])

\* the nodes enumerated before u whose sum is 0: each has read one value
TiesBefore(u) == Cardinality({w \in Nodes : w < u /\ SignedSum(w) = 0})

\* C13: all_neighbors_trust_aware_update returns 1 for u when S > 0, 0 when
\* S < 0, and when S = 0 u's strategy (as it was when the rule was called) if
\* the draw is below 0.5 and its complement otherwise; only nodes with S = 0
\* read the generator.
C13_AllNeighbors ==
  (pc = "updated" /\ rule = "all_neighbors_trust_aware_update") =>
    /\ updDraws = Cardinality({w \in Nodes : SignedSum(w) = 0})
    /\ \A u \in Nodes :
         strat[u] = IF SignedSum(u) > 0 THEN 1
                    ELSE IF SignedSum(u) < 0 THEN 0
                    ELSE IF 2 * stream[TiesBefore(u) + 1] < NumDrawLevels
                      THEN prev[u] ELSE 1 - prev[u]

C13_Witness ==
  /\ pc = "updated"
  /\ rule = "all_neighbors_trust_aware_update"
  /\ \E u \in Nodes : SignedSum(u) < 0 /\ prev[u] = 1 /\ strat[u] = 0
  /\ \E u \in Nodes : SignedSum(u) > 0 /\ prev[u] = 0 /\ strat[u] = 1
  /\ \E u \in Nodes : SignedSum(u) = 0 /\ strat[u] # prev[u]

\* C14: coin_flip_initializer reads exactly one value per node, in node
\* enumeration order, and gives a node strategy 1 exactly when its value is
\* below p; with p = 0 every node defects, with p = 1 every node cooperates;
\* the keys of the mapping are exactly the nodes.
C14_CoinFlip ==
  (pc = "ready" /\ rule = "coin_flip_initializer") =>
    /\ updDraws = NumNodes
    /\ Len(stream) = NumNodes
    /\ DOMAIN returned = Nodes
    /\ \A i \in 1..NumNodes :
         returned[NodeList[i]] = IF stream[i] * ProbDen < coin_p * NumDrawLevels THEN 1 ELSE 0
    /\ strat = returned
    /\ coin_p = 0 => \A n \in Nodes : strat[n] = 0
    /\ coin_p = ProbDen => \A n \in Nodes : strat[n] = 1

C14_Witness ==
  /\ pc = "ready"
  /\ rule = "coin_flip_initializer"
  /\ coin_p = HalfProb
  /\ stream[1] = 0
  /\ stream[2] = NumDrawLevels - 1
  /\ strat[1] = 1
  /\ strat[2] = 0

\* C15: assign_strategies and update_strategies reject a mapping that
\* contains a value other than 0 and 1 (no strategy is written), so no node
\* ever holds such a strategy and the lookup of the payoff table never fails.
C15_BinaryValidated ==
  /\ (pc \in {"ready", "updated", "error"}
        /\ \E n \in DOMAIN returned : returned[n] \notin {0, 1}) =>
       pc = "error" /\ strat = prev
  /\ \A n \in Nodes : strat[n] \in {0, 1, NoStrategy}
  /\ pc # "keyerror"

\* C16: in a round of the trust-weighted kind the values of the seed's stream
\* are read in order, first by the flips and then by the update rule: when the
\* flips have read m values the rule's k-th value is the (m+k)-th of the
\* stream, so the two phases together have read m + k values and the rule's
\* outcome is the one computed from the values after the m-th.
C16_SingleStream ==
  (pc = "updated" /\ game = "trust") =>
    /\ Len(stream) = playDraws + updDraws
    /\ returned = ApplyRule(rule, G, payoffs, prev, stream, playDraws).new

\* C17: the mapping a rule returns gives every node the outcome of the rule's
\* step for that node on the strategies and payoffs as they were when the rule
\* was called, whatever the rule computed for the nodes before it;
\* update_strategies writes that mapping and changes neither the payoffs nor
\* the graph; no step of a round changes the nodes, the edges or a sign.
C17_SnapshotFrame ==
  [][/\ G' = G
     /\ (pc = "played" /\ pc' = "updated") =>
          LET reads(w) == RuleNode(rule', G, payoffs, strat, w, stream', 0).k
              start(u) == SumOver({w \in Nodes : w < u}, [w \in Nodes |-> reads(w)])
          IN /\ prev' = strat
             /\ payoffs' = payoffs
             /\ DOMAIN returned' = Nodes
             /\ \A u \in Nodes :
                  returned'[u] = RuleNode(rule', G, payoffs, strat, u, stream', start(u)).s
             /\ strat' = returned'
    ]_vars

C17_Witness ==
  /\ pc = "updated"
  /\ rule = "fermi_update"
  /\ \E u, v \in Nodes :
       /\ u < v
       /\ OutNeighbors(u) = {v}
       /\ OutNeighbors(v) = {u}
       /\ prev[u] # prev[v]
       /\ strat[u] = prev[v]
       /\ strat[v] = prev[u]

\* C18: play_with_trust_and_pd with flip_prob = 0 changes no node's strategy,
\* and the payoff map it returns is the per-node total that
\* evolutionary_game_round accumulates from play_prisoners_dilemma on the same
\* graph and strategies.
C18_ZeroFlipIsPlain ==
  (game = "trust" /\ flip_prob = 0 /\ pc \in {"trust", "played"}) =>
    /\ strat = strat0
    /\ pc = "played" =>
         payoffs = AccumulatePayoffs(play_prisoners_dilemma(G, strat0), ZeroPayoffs)

C18_Witness ==
  /\ pc = "played"
  /\ game = "trust"
  /\ flip_prob = 0
  /\ playDraws >= 2
  /\ stream[1] = 0
  /\ \E n \in Nodes : payoffs[n] = 5
  /\ \E n \in Nodes : payoffs[n] = 3
  /\ \E p \in G.E : G.sign[p] = 1 /\ strat[p[1]] = 0
  /\ \E p \in G.E : G.sign[p] = -1 /\ strat[p[1]] = 1

Uniform(st) == \A a, b \in Nodes : st[a] = st[b]

\* C19: a round of evolutionary_game_round with imitate_best_neighbor or with
\* fermi_update that starts with all nodes on the same strategy ends with every
\* node's strategy unchanged, on every graph and for every draw; so a uniform
\* assignment stays through all later rounds of these rules.
C19_UniformAbsorbing ==
  (/\ pc = "updated"
   /\ game = "plain"
   /\ rule \in {"imitate_best_neighbor", "fermi_update"}
   /\ Uniform(strat0)) =>
    /\ returned = strat0
    /\ strat = strat0

C19_Witness ==
  /\ pc = "updated"
  /\ game = "plain"
  /\ rule = "fermi_update"
  /\ Uniform(strat0)
  /\ strat0[1] = 1
  /\ updDraws >= 2
  /\ \E u \in Nodes : \E v \in OutNeighbors(u) : payoffs[v] > payoffs[u]

====
